---- MODULE Spec2Model ----
(***************************************************************************)
(* A model of main.py: the Timer / Stopwatch primitives, the Player        *)
(* movement model, the collision dispatch and the frame loop of main().    *)
(*                                                                         *)
(* Numbers.  Python's float is IEEE-754 binary64, and the program compares *)
(* accumulated floats with literals (sight < 1, -0.05 < v < 0.05, ...), so *)
(* the rounding of every + and - is part of its behaviour.  A float is     *)
(* modelled exactly: a sign and a magnitude in units of 2^-62, the         *)
(* magnitude held in four limbs of 20 bits (little-endian), and every      *)
(* arithmetic result rounded to 53 significant bits, ties to even.         *)
(*                                                                         *)
(* Values computed once.  Where the program keeps a result in a local and  *)
(* reads it several times, the model writes The({ e(x) : x \in {r} }): the  *)
(* result r is computed once, bound to x, and e(x) is the value obtained.  *)
(***************************************************************************)
EXTENDS Integers, Sequences, FiniteSets, TLC

\* the element of a singleton
The(S) == CHOOSE x \in S : TRUE

----------------------------------------------------------------------------
(* binary64 arithmetic *)

LimbBase == 2^20

\* stored fraction bits plus the implicit leading bit
Mantissa == 52 + 1

MagZero == <<0, 0, 0, 0>>

\* -1, 0, 1 as a < b, a = b, a > b
MagCmp(a, b) ==
    LET d == {i \in 1..4 : a[i] # b[i]}
    IN  IF d = {} THEN 0
        ELSE LET i == CHOOSE j \in d : \A k \in d : k <= j
             IN  IF a[i] < b[i] THEN -1 ELSE 1

MagAdd(a, b) ==
    LET s1 == a[1] + b[1]
        s2 == a[2] + b[2] + (s1 \div LimbBase)
        s3 == a[3] + b[3] + (s2 \div LimbBase)
        s4 == a[4] + b[4] + (s3 \div LimbBase)
    IN  <<s1 % LimbBase, s2 % LimbBase, s3 % LimbBase, s4>>

\* a - b for a >= b
MagSub(a, b) ==
    LET d1 == a[1] - b[1]
        d2 == a[2] - b[2] - (IF d1 < 0 THEN 1 ELSE 0)
        d3 == a[3] - b[3] - (IF d2 < 0 THEN 1 ELSE 0)
        d4 == a[4] - b[4] - (IF d3 < 0 THEN 1 ELSE 0)
    IN  <<d1 % LimbBase, d2 % LimbBase, d3 % LimbBase, d4>>

\* the number of bits of 0 <= n < 2^21
BitLen(n) == IF n = 0 THEN 0 ELSE CHOOSE k \in 1..21 : 2^(k-1) <= n /\ n < 2^k

MagBitLen(m) ==
    IF m[4] # 0 THEN 60 + BitLen(m[4])
    ELSE IF m[3] # 0 THEN 40 + BitLen(m[3])
    ELSE IF m[2] # 0 THEN 20 + BitLen(m[2])
    ELSE BitLen(m[1])

\* m mod 2^s
MagLow(m, s) ==
    LET limb(i) == IF 20 * i <= s THEN m[i]
                   ELSE IF 20 * (i - 1) >= s THEN 0
                   ELSE m[i] % 2^(s - 20 * (i - 1))
    IN  <<limb(1), limb(2), limb(3), limb(4)>>

\* 2^k
MagPow2(k) ==
    LET limb(i) == IF (k \div 20) + 1 = i THEN 2^(k % 20) ELSE 0
    IN  <<limb(1), limb(2), limb(3), limb(4)>>

MagBit(m, k) == (m[(k \div 20) + 1] \div 2^(k % 20)) % 2

\* m with its s lowest bits rounded away: to nearest, ties to even; sticky
\* says that the exact value lies strictly above m (a division's remainder)
MagRoundAt(m, s, sticky) ==
    The({ The({ IF c = 1 \/ (c = 0 /\ (sticky \/ MagBit(m, s) = 1))
                THEN MagAdd(t, MagPow2(s)) ELSE t :
                  c \in { MagCmp(low, MagPow2(s - 1)) },
                  t \in { MagSub(m, low) } }) :
            low \in { MagLow(m, s) } })

\* m rounded to 53 significant bits
MagRound(m, sticky) ==
    The({ IF len <= Mantissa THEN v ELSE MagRoundAt(v, len - Mantissa, sticky) :
            v \in { m }, len \in { MagBitLen(m) } })

DZero == [s |-> 0, m |-> MagZero]

DMk(s, m) == The({ IF v = MagZero THEN DZero ELSE [s |-> s, m |-> v] : v \in { m } })

\* a Python int used as a number (|n| < 2^18)
DInt(n) == IF n = 0 THEN DZero
           ELSE IF n < 0 THEN [s |-> -1, m |-> <<0, 0, 0, (-n) * 4>>]
           ELSE [s |-> 1, m |-> <<0, 0, 0, n * 4>>]

DNeg(x) == [s |-> -(x.s), m |-> x.m]

\* x + y for x and y other than 0, before rounding
DSum(x, y) ==
    IF x.s = y.s THEN [s |-> x.s, m |-> MagAdd(x.m, y.m)]
    ELSE The({ IF c = 0 THEN DZero
               ELSE IF c = 1 THEN [s |-> x.s, m |-> MagSub(x.m, y.m)]
               ELSE [s |-> y.s, m |-> MagSub(y.m, x.m)] :
                 c \in { MagCmp(x.m, y.m) } })

\* x + y, rounded as binary64 rounds it
DAdd(x, y) ==
    The({ IF a.s = 0 THEN b
          ELSE IF b.s = 0 THEN a
          ELSE The({ DMk(r.s, MagRound(r.m, FALSE)) : r \in { DSum(a, b) } }) :
            a \in { x }, b \in { y } })

DSub(x, y) == DAdd(x, DNeg(y))

DCmp(x, y) ==
    The({ IF a.s # b.s THEN (IF a.s < b.s THEN -1 ELSE 1)
          ELSE IF a.s = 0 THEN 0
          ELSE a.s * MagCmp(a.m, b.m) :
            a \in { x }, b \in { y } })

DLt(x, y) == DCmp(x, y) = -1
DLe(x, y) == DCmp(x, y) # 1

\* n / d of two Python ints (0 <= n < 2^18, 0 < d <= 2000, n / d >= 2^-8 or
\* n = 0), correctly rounded: int / int, and the value of a decimal literal
DDiv(n, d) ==
    LET n4 == n * 4
        q4 == n4 \div d
        r4 == n4 % d
        q3 == (r4 * LimbBase) \div d
        r3 == (r4 * LimbBase) % d
        q2 == (r3 * LimbBase) \div d
        r2 == (r3 * LimbBase) % d
        q1 == (r2 * LimbBase) \div d
        r1 == (r2 * LimbBase) % d
    IN  DMk(1, MagRound(<<q1, q2, q3, q4>>, r1 # 0))

\* int(x): truncation toward zero
DTrunc(x) == x.s * (x.m[4] \div 4)

----------------------------------------------------------------------------
(* program constants *)

FPS == 60
GAME_WIDTH == 800
GAME_HEIGHT == 600
MAX_SPEED == 3
WIDTH == 48
HEIGHT == 48

\* game_state: 1 Countdown, 2 Navigation, 3 Finished; None ends the loop
None == 0

\* Player.FRICTION_VECTOR = Vector(0.05, 0.05)
FRICTION_VECTOR == [x |-> DDiv(5, 100), y |-> DDiv(5, 100)]

\* player = Player(200, 200, Vector(0.25, 0.25))
acceleration_vector == [x |-> DDiv(25, 100), y |-> DDiv(25, 100)]

\* the deadband literal 0.05 of key_move
Deadband == DDiv(5, 100)

\* rectangles are <<left, top, width, height>>
walls ==
    << <<0, 100, 200, 20>>,   <<200, 100, 20, 100>>, <<120, 200, 100, 20>>,
       <<300, 100, 200, 20>>, <<300, 180, 200, 20>>, <<300, 180, 20, 120>>,
       <<500, 100, 20, 100>>, <<600, 100, 200, 20>>, <<40, 100, 20, 120>>,
       <<0, 280, 220, 20>>,   <<100, 380, 220, 20>>, <<100, 380, 20, 100>>,
       <<100, 480, 100, 20>>, <<0, 380, 40, 20>>,    <<0, 450, 40, 20>>,
       <<100, 560, 20, 100>>, <<100, 560, 100, 20>>, <<100, 560, 100, 20>>,
       <<300, 400, 20, 120>>, <<380, 480, 20, 120>>, <<460, 380, 20, 220>>,
       <<300, 380, 180, 20>>, <<300, 280, 180, 20>>, <<500, 180, 240, 20>>,
       <<500, 180, 240, 20>>, <<580, 180, 20, 140>>, <<580, 180, 20, 180>>,
       <<680, 260, 140, 20>>, <<580, 340, 100, 20>>, <<580, 440, 100, 20>>,
       <<580, 440, 20, 180>>, <<680, 340, 20, 120>>, <<680, 520, 20, 140>> >>

end_zone == <<600, 520, 80, 140>>

\* the names of the nine SpriteCycles of the Player's sheet, their frame
\* counts and their intervals in milliseconds
cycle_names == <<"stand", "blink", "walk", "sprint", "crouch", "jump", "fade",
                 "death", "attack">>
images_per_row == <<2, 2, 4, 8, 6, 8, 3, 8, 8>>
cycle_times == <<1000, 100, 100, 100, 100, 100, 100, 100, 100>>

----------------------------------------------------------------------------
(* bounds of the model and the inputs the environment supplies *)

\* passes of the loop in one run of the model
MaxFrames == 3

\* events that may wait in pygame's queue
MaxEvents == 1

\* calls of tick() on a Timer used on its own
MaxTicks == 4

\* calls of key_move on a Player used on its own, after the keys of HeldKeys
\* were held for up to MaxHeld calls
MaxCalls == 2
MaxHeld == 16

\* what pygame.key.get_pressed() may report: the keys held
KeySets == { {}, {"s"}, {"escape"} }

\* a Clock.tick(FPS) that had to wait for the frame period, in milliseconds
FramePeriod == 1000 \div FPS + 1

\* what a Clock.tick(FPS) of a frame may report, in milliseconds: the frame
\* period, a stall that lets the spawn timer run out, and a stall that lets
\* the countdown run out.  Every clock ticked in one frame measures that
\* frame, so one value serves the frame.
Elapsed == { FramePeriod, 2000, 20000 }

EventTypes == { "QUIT", "KEYDOWN" }

\* randint(20, GAME_HEIGHT - 20)
Lanes == { 20, 232 }

\* uniform(1.5, 2.5)
Speeds == { DDiv(15, 10), DDiv(25, 10) }

\* text_render.get_size() of a rendered payload
TextSizes == { <<451, 15>> }

----------------------------------------------------------------------------
(* pygame.Rect *)

Rect(left, top, w, h) == <<left, top, w, h>>

Min(a, b) == IF a < b THEN a ELSE b
Max(a, b) == IF a > b THEN a ELSE b

\* Rect.colliderect: rectangles of a zero width or height never collide
colliderect(A, B) ==
    /\ A[3] # 0 /\ A[4] # 0 /\ B[3] # 0 /\ B[4] # 0
    /\ Min(A[1], A[1] + A[3]) < Max(B[1], B[1] + B[3])
    /\ Min(A[2], A[2] + A[4]) < Max(B[2], B[2] + B[4])
    /\ Max(A[1], A[1] + A[3]) > Min(B[1], B[1] + B[3])
    /\ Max(A[2], A[2] + A[4]) > Min(B[2], B[2] + B[4])

----------------------------------------------------------------------------
(* Timer and Stopwatch *)

\* Timer.tick with the clock reporting d milliseconds: the remaining time,
\* whether the clock was ticked, and whether on_end was called
Timer_tick(time, d) ==
    The({ [time |-> t1, clock |-> DLt(DZero, time), on_end |-> DLe(t1, DZero)] :
            t1 \in { IF DLt(DZero, time) THEN DSub(time, DDiv(d, 1000))
                     ELSE time } })

\* Stopwatch.tick
Stopwatch_tick(time, d) == DAdd(time, DDiv(d, 1000))

\* SpriteCycle: its interval timer is ticked; interval_end advances the
\* sprite and arms a new Timer
SpriteCycle_tick(c, i, d) ==
    The({ IF r.on_end
          THEN [time |-> DDiv(cycle_times[i], 1000),
                sprite_index |-> (c.sprite_index + 1) % images_per_row[i]]
          ELSE [time |-> r.time, sprite_index |-> c.sprite_index] :
            r \in { Timer_tick(c.time, d) } })

----------------------------------------------------------------------------
(* Player *)

Hitbox(x, y) ==
    Rect(DTrunc(DSub(x, DDiv(WIDTH, 2))), DTrunc(DSub(y, DDiv(HEIGHT, 2))),
         WIDTH, HEIGHT)

\* Player.__init__
NewPlayer(x, y) ==
    [x |-> DInt(x), y |-> DInt(y), vx |-> DZero, vy |-> DZero,
     hitbox |-> Hitbox(DInt(x), DInt(y)), sight |-> DZero,
     show_sight |-> FALSE, is_playing_animation |-> TRUE, state |-> "still"]

\* key_move, lines 183-193, on one axis: the key that subtracts the
\* acceleration and the key that adds it
Accelerate(v, a, minus, plus) ==
    IF minus
    THEN (IF plus THEN DAdd(DSub(v, a), a) ELSE DSub(v, a))
    ELSE (IF plus THEN DAdd(v, a) ELSE v)

\* lines 197-207 on one axis: the component is set to +-MAX_SPEED when the
\* local copy read at line 195 is beyond it
\* a variant without the limit
Limit_none(velocity) == velocity

Limit(velocity) ==
    IF DLt(velocity, DInt(-MAX_SPEED)) THEN DInt(-MAX_SPEED)
    ELSE IF DLt(DInt(MAX_SPEED), velocity) THEN DInt(MAX_SPEED)
    ELSE velocity

\* lines 209-219 on one axis: friction against the sign of the local copy
Rub(v, velocity, f) ==
    IF DLt(DZero, velocity) THEN DSub(v, f)
    ELSE IF DLt(velocity, DZero) THEN DAdd(v, f)
    ELSE v

\* lines 221-225 on one axis
\* a variant without the deadband
Snap_none(v) == v

Snap(v) == IF DLt(DNeg(Deadband), v) /\ DLt(v, Deadband) THEN DZero ELSE v

\* lines 197-225 on one axis, velocity being the local copy of line 195
Settle(velocity, f) == Snap(Rub(Limit(velocity), velocity, f))

\* Player.key_move; the two axes do not read each other
key_move(p, k) ==
    The({ [p EXCEPT
             !.vx = Settle(velocity_x, FRICTION_VECTOR.x),
             !.vy = Settle(velocity_y, FRICTION_VECTOR.y),
             !.state = IF velocity_x # DZero \/ velocity_y # DZero
                       THEN "moving" ELSE "still"] :
            velocity_x \in { Accelerate(p.vx, acceleration_vector.x,
                                        "a" \in k, "d" \in k) },
            velocity_y \in { Accelerate(p.vy, acceleration_vector.y,
                                        "w" \in k, "s" \in k) } })

\* the clamp of one coordinate in Player.move
\* a variant that lets the coordinate pass the near edge
Clamp_far_only(v, size, limit) ==
    The({ IF DLt(hi, v) THEN hi ELSE v :
            hi \in { DSub(DInt(limit), DDiv(size, 2)) } })

Clamp(v, size, limit) ==
    The({ IF DLt(hi, v1) THEN hi ELSE v1 :
            v1 \in { IF DLt(v, DDiv(size, 2)) THEN DDiv(size, 2) ELSE v },
            hi \in { DSub(DInt(limit), DDiv(size, 2)) } })

\* Player.move
move(p) ==
    The({ [p EXCEPT !.x = x1, !.y = y1, !.hitbox = Hitbox(x1, y1)] :
            x1 \in { The({ Clamp(x, WIDTH, GAME_WIDTH) :
                             x \in { DAdd(p.x, p.vx) } }) },
            y1 \in { The({ Clamp(y, HEIGHT, GAME_HEIGHT) :
                             y \in { DAdd(p.y, p.vy) } }) } })

\* the sight reveal of Player.draw
\* a variant that resumes the reveal whenever the sight is below 1
draw_replaying(p) ==
    IF DLt(p.sight, DInt(1))
    THEN [p EXCEPT !.sight = DAdd(p.sight, DDiv(2, 100))]
    ELSE IF p.is_playing_animation
    THEN [p EXCEPT !.sight = DInt(1), !.is_playing_animation = FALSE]
    ELSE p

draw(p) ==
    IF DLt(p.sight, DInt(1)) /\ p.is_playing_animation
    THEN [p EXCEPT !.sight = DAdd(p.sight, DDiv(2, 100))]
    ELSE IF DLe(DInt(1), p.sight) /\ p.is_playing_animation
    THEN [p EXCEPT !.sight = DInt(1), !.is_playing_animation = FALSE]
    ELSE p

----------------------------------------------------------------------------
(* TextBullet *)

\* the hitbox of a TextBullet at x, y with a text of w by h
BulletHitbox(x, y, w, h) ==
    Rect(DTrunc(DSub(x, DDiv(w, 2))), DTrunc(DSub(y, DDiv(h, 2))), w, h)

\* TextBullet.__init__
NewTextBullet(y, size, speed) ==
    The({ [x |-> x, y |-> DInt(y),
           movement_vector |-> [x |-> speed, y |-> DZero],
           w |-> size[1], h |-> size[2],
           hitbox |-> BulletHitbox(x, DInt(y), size[1], size[2])] :
            x \in { DNeg(DDiv(size[1], 2)) } })

\* TextBullet.move
TextBullet_move(b) ==
    The({ [b EXCEPT !.x = x1, !.y = y1,
                    !.hitbox = BulletHitbox(x1, y1, b.w, b.h)] :
            x1 \in { DAdd(b.x, b.movement_vector.x) },
            y1 \in { DAdd(b.y, b.movement_vector.y) } })

----------------------------------------------------------------------------
(* the state of main() *)

VARIABLES
    pc,            \* where main() stands in its loop
    frame,         \* frames started
    game_state,
    keys,          \* the keys sampled this frame
    dt,            \* what the clocks report this frame, in milliseconds
    events,        \* pygame's event queue
    player,
    cycles,        \* player.sprites.sprites: the interval timers and indices
    timer,         \* the Timer(20, change_state), later the Stopwatch
    bullet_timer,
    bullets, drawables, movables,   \* the rosters
    tb,            \* the TextBullets alive, by identity
    nbullets,      \* TextBullets created so far
    wi,            \* the index of the scan "for wall in walls"
    bi,            \* the index of the scan "for bullet in bullets"
    calls,         \* the calls made in this frame, by name
    quit_seen,     \* check_quit returned True in this frame
    quit_queued,   \* a QUIT event waited in the queue as this frame began
    transitions,   \* calls of change_state so far
    ended,         \* print("End") executed so far
    ut             \* a Timer ticked on its own: its time and its on_end calls

vars == <<pc, frame, game_state, keys, dt, events, player, cycles, timer,
          bullet_timer, bullets, drawables, movables, tb, nbullets, wi, bi,
          calls, quit_seen, quit_queued, transitions, ended, ut>>

\* the program's variables as one value
World ==
    [game_state |-> game_state, keys |-> keys, dt |-> dt, events |-> events,
     player |-> player, cycles |-> cycles, timer |-> timer,
     bullet_timer |-> bullet_timer, bullets |-> bullets,
     drawables |-> drawables, movables |-> movables, tb |-> tb,
     nbullets |-> nbullets, wi |-> wi, bi |-> bi, calls |-> calls,
     quit_seen |-> quit_seen, quit_queued |-> quit_queued,
     transitions |-> transitions, ended |-> ended]

Commit(w) ==
    /\ game_state' = w.game_state /\ keys' = w.keys /\ dt' = w.dt
    /\ events' = w.events /\ player' = w.player /\ cycles' = w.cycles
    /\ timer' = w.timer /\ bullet_timer' = w.bullet_timer
    /\ bullets' = w.bullets /\ drawables' = w.drawables
    /\ movables' = w.movables /\ tb' = w.tb /\ nbullets' = w.nbullets
    /\ wi' = w.wi /\ bi' = w.bi /\ calls' = w.calls /\ quit_seen' = w.quit_seen
    /\ quit_queued' = w.quit_queued /\ transitions' = w.transitions
    /\ ended' = w.ended

Load(w) ==
    /\ game_state = w.game_state /\ keys = w.keys /\ dt = w.dt
    /\ events = w.events /\ player = w.player /\ cycles = w.cycles
    /\ timer = w.timer /\ bullet_timer = w.bullet_timer
    /\ bullets = w.bullets /\ drawables = w.drawables
    /\ movables = w.movables /\ tb = w.tb /\ nbullets = w.nbullets
    /\ wi = w.wi /\ bi = w.bi /\ calls = w.calls /\ quit_seen = w.quit_seen
    /\ quit_queued = w.quit_queued /\ transitions = w.transitions
    /\ ended = w.ended

\* a reference to an object held in a roster
Ent(kind, id) == [kind |-> kind, id |-> id]

NoCalls ==
    [tick |-> 0, clock |-> 0, change_state |-> 0, spawn_bullet |-> 0,
     wall_test |-> 0, wall_hit |-> 0, key_move |-> 0, move |-> 0, draw |-> 0,
     bullet_test |-> 0, bullet_hit |-> 0, goal_test |-> 0, goal_hit |-> 0]

\* main() up to its loop
InitWorld ==
    [game_state |-> 1, keys |-> {}, dt |-> 0, events |-> <<>>,
     player |-> NewPlayer(200, 200),
     cycles |-> [i \in 1..Len(cycle_names) |->
                    [time |-> DDiv(cycle_times[i], 1000), sprite_index |-> 0]],
     timer |-> [kind |-> "Timer", time |-> DInt(20)],
     bullet_timer |-> [time |-> DInt(2)],
     bullets |-> <<>>,
     drawables |-> <<Ent("Player", 0), Ent("Timer", 0)>>,
     movables |-> <<Ent("Player", 0)>>,
     tb |-> <<>>, nbullets |-> 0, wi |-> 0, bi |-> 0, calls |-> NoCalls,
     quit_seen |-> FALSE, quit_queued |-> FALSE, transitions |-> 0,
     ended |-> 0]

\* Timer.__init__: the Timers main.py constructs, with the calls of tick()
\* and of on_end counted
NewTimer(time) == [time |-> time, on_end |-> 0, ticks |-> 0]

NewUnitTimer == NewTimer(DInt(20))

----------------------------------------------------------------------------
(* the callbacks of main() *)

\* list.remove: the first occurrence goes
Remove(s, e) ==
    IF \E i \in 1..Len(s) : s[i] = e
    THEN LET i == CHOOSE j \in 1..Len(s) :
                     s[j] = e /\ \A k \in 1..(j - 1) : s[k] # e
         IN  SubSeq(s, 1, i - 1) \o SubSeq(s, i + 1, Len(s))
    ELSE s

Members(s) == {s[i] : i \in 1..Len(s)}

\* a TextBullet no roster holds is gone
Collect(w) ==
    LET live == {i \in DOMAIN w.tb :
                    Ent("TextBullet", i) \in
                        Members(w.bullets) \cup Members(w.drawables)
                            \cup Members(w.movables)}
    IN  [w EXCEPT !.tb = [i \in live |-> w.tb[i]]]

\* a variant that leaves the countdown Timer in place
on_state_change_keeping_timer(w) ==
    Collect([w EXCEPT
        !.player.show_sight = TRUE,
        !.bullets = <<>>,
        !.drawables = <<Ent("Player", 0)>>
                        \o [i \in 1..Len(walls) |-> Ent("Wall", i)]
                        \o <<Ent("EndZone", 0), Ent("Timer", 0)>>,
        !.movables = <<Ent("Player", 0)>>,
        !.player.x = DInt(50),
        !.player.y = DInt(50)])

\* a variant that leaves the projectile roster as it is
on_state_change_keeping_bullets(w) ==
    Collect([w EXCEPT
        !.timer = [kind |-> "Stopwatch", time |-> DZero],
        !.player.show_sight = TRUE,
        !.drawables = <<Ent("Player", 0)>>
                        \o [i \in 1..Len(walls) |-> Ent("Wall", i)]
                        \o <<Ent("EndZone", 0), Ent("Stopwatch", 0)>>,
        !.movables = <<Ent("Player", 0)>>,
        !.player.x = DInt(50),
        !.player.y = DInt(50)])

on_state_change(w) ==
    Collect([w EXCEPT
        !.timer = [kind |-> "Stopwatch", time |-> DZero],
        !.player.show_sight = TRUE,
        !.bullets = <<>>,
        !.drawables = <<Ent("Player", 0)>>
                        \o [i \in 1..Len(walls) |-> Ent("Wall", i)]
                        \o <<Ent("EndZone", 0), Ent("Stopwatch", 0)>>,
        !.movables = <<Ent("Player", 0)>>,
        !.player.x = DInt(50),
        !.player.y = DInt(50)])

change_state(w) ==
    on_state_change([w EXCEPT !.game_state = 2,
                              !.calls.change_state = @ + 1,
                              !.transitions = @ + 1])

\* a variant that leaves the new TextBullet out of the drawables
spawn_bullet_not_drawn(w, y, size, speed) ==
    LET id == w.nbullets + 1
        b  == Ent("TextBullet", id)
    IN  [w EXCEPT
            !.tb = [i \in DOMAIN w.tb \cup {id} |->
                       IF i = id THEN NewTextBullet(y, size, speed) ELSE w.tb[i]],
            !.nbullets = id,
            !.bullets = Append(@, b),
            !.movables = Append(@, b),
            !.bullet_timer = [time |-> DDiv(25, 100)],
            !.calls.spawn_bullet = @ + 1]

spawn_bullet(w, y, size, speed) ==
    LET id == w.nbullets + 1
        b  == Ent("TextBullet", id)
    IN  [w EXCEPT
            !.tb = [i \in DOMAIN w.tb \cup {id} |->
                       IF i = id THEN NewTextBullet(y, size, speed) ELSE w.tb[i]],
            !.nbullets = id,
            !.bullets = Append(@, b),
            !.drawables = Append(@, b),
            !.movables = Append(@, b),
            !.bullet_timer = [time |-> DDiv(25, 100)],
            !.calls.spawn_bullet = @ + 1]

\* a variant that lowers the sight whatever it is
on_player_bullet_collide_always_dimming(w, b) ==
    Collect([w EXCEPT
        !.bullets = Remove(@, b),
        !.movables = Remove(@, b),
        !.drawables = Remove(@, b),
        !.player.sight = DSub(@, DDiv(5, 100)),
        !.calls.bullet_hit = @ + 1])

on_player_bullet_collide(w, b) ==
    Collect([w EXCEPT
        !.bullets = Remove(@, b),
        !.movables = Remove(@, b),
        !.drawables = Remove(@, b),
        !.player.sight = IF DLe(DDiv(1, 10), @) THEN DSub(@, DDiv(5, 100)) ELSE @,
        !.calls.bullet_hit = @ + 1])

\* a variant that moves the Player and keeps its velocity
on_player_wall_collide_keeping_velocity(w) ==
    [w EXCEPT !.player.x = DInt(50), !.player.y = DInt(50),
              !.calls.wall_hit = @ + 1]

on_player_wall_collide(w) ==
    [w EXCEPT !.player.x = DInt(50), !.player.y = DInt(50),
              !.player.vx = DZero, !.player.vy = DZero,
              !.calls.wall_hit = @ + 1]

\* a variant that leaves game_state as it is
on_player_end_collide_ignored(w) ==
    [w EXCEPT !.calls.goal_hit = @ + 1]

on_player_end_collide(w) ==
    [w EXCEPT !.game_state = 3, !.calls.goal_hit = @ + 1]

----------------------------------------------------------------------------
(* the steps of one frame, as functions of the program's variables *)

\* lines 549-553: the keys are sampled and the event queue is cleared
StartFrame(w, k, d) ==
    [w EXCEPT !.keys = k, !.dt = d,
              !.quit_queued = "QUIT" \in Members(w.events),
              !.events = <<>>,
              !.calls = NoCalls, !.quit_seen = FALSE, !.wi = 0, !.bi = 0]

\* check_quit: the result, and what is left of the queue
check_quit(k, ev) ==
    IF "escape" \in k
    THEN [r |-> TRUE, events |-> ev]
    ELSE [r |-> "QUIT" \in Members(ev), events |-> <<>>]

\* lines 556-557
QuitCheck(w) ==
    LET c == check_quit(w.keys, w.events)
    IN  [w EXCEPT !.events = c.events, !.quit_seen = c.r,
                  !.game_state = IF c.r THEN None ELSE @]

\* line 559: timer.tick(), of the Timer or of the Stopwatch
TickTimer(w) ==
    IF w.timer.kind = "Timer"
    THEN The({ LET w1 == [w EXCEPT
                              !.timer.time = r.time,
                              !.calls.tick = @ + 1,
                              !.calls.clock = @ + (IF r.clock THEN 1 ELSE 0)]
               IN  IF r.on_end THEN change_state(w1) ELSE w1 :
                 r \in { Timer_tick(w.timer.time, w.dt) } })
    ELSE [w EXCEPT !.timer.time = Stopwatch_tick(@, w.dt),
                   !.calls.tick = @ + 1, !.calls.clock = @ + 1]

\* lines 561-562
\* a variant that ticks the spawn Timer in every state of the game
TickBulletTimer_unguarded(w, y, size, speed) ==
    The({ LET w1 == [w EXCEPT
                         !.bullet_timer.time = r.time,
                         !.calls.tick = @ + 1,
                         !.calls.clock = @ + (IF r.clock THEN 1 ELSE 0)]
          IN  IF r.on_end THEN spawn_bullet(w1, y, size, speed) ELSE w1 :
            r \in { Timer_tick(w.bullet_timer.time, w.dt) } })

TickBulletTimer(w, y, size, speed) ==
    IF w.game_state = 1
    THEN The({ LET w1 == [w EXCEPT
                              !.bullet_timer.time = r.time,
                              !.calls.tick = @ + 1,
                              !.calls.clock = @ + (IF r.clock THEN 1 ELSE 0)]
               IN  IF r.on_end THEN spawn_bullet(w1, y, size, speed) ELSE w1 :
                 r \in { Timer_tick(w.bullet_timer.time, w.dt) } })
    ELSE w

\* one pass of "for wall in walls" (lines 565-566)
WallTest(w) ==
    LET w1 == [w EXCEPT !.wi = @ + 1, !.calls.wall_test = @ + 1]
    IN  IF colliderect(w.player.hitbox, walls[w.wi + 1])
        THEN on_player_wall_collide(w1) ELSE w1

RECURSIVE WallScan(_)
WallScan(w) == IF w.wi < Len(walls) THEN WallScan(WallTest(w)) ELSE w

\* lines 564-566
WallChecks(w) == IF w.game_state = 2 THEN WallScan(w) ELSE w

\* line 568
KeyMove(w) ==
    [w EXCEPT !.player = key_move(@, w.keys), !.calls.key_move = @ + 1]

RECURSIVE MoveLoop(_, _)
MoveLoop(w, i) ==
    IF i > Len(w.movables) THEN w
    ELSE LET e  == w.movables[i]
             w1 == IF e.kind = "Player"
                   THEN [w EXCEPT !.player = move(@)]
                   ELSE [w EXCEPT !.tb[e.id] = TextBullet_move(@)]
         IN  MoveLoop([w1 EXCEPT !.calls.move = @ + 1], i + 1)

\* lines 570-571
MoveAll(w) == MoveLoop(w, 1)

\* Player.draw: every cycle's interval timer is ticked, then the sight reveal
Player_draw(w) ==
    [w EXCEPT
        !.cycles = [i \in 1..Len(cycle_names) |->
                       SpriteCycle_tick(w.cycles[i], i, w.dt)],
        !.calls.tick = @ + Len(cycle_names),
        !.calls.clock = @ + Cardinality({i \in 1..Len(cycle_names) :
                                            DLt(DZero, w.cycles[i].time)}),
        !.player = draw(@)]

RECURSIVE DrawLoop(_, _)
DrawLoop(w, i) ==
    IF i > Len(w.drawables) THEN w
    ELSE LET w1 == IF w.drawables[i].kind = "Player" THEN Player_draw(w) ELSE w
         IN  DrawLoop([w1 EXCEPT !.calls.draw = @ + 1], i + 1)

\* lines 573-574
DrawAll(w) == DrawLoop(w, 1)

\* one pass of "for bullet in bullets" (lines 576-577): the list iterator
\* yields the element at its index and steps on
BulletTest(w) ==
    LET b  == w.bullets[w.bi + 1]
        w1 == [w EXCEPT !.bi = @ + 1, !.calls.bullet_test = @ + 1]
    IN  IF colliderect(w.player.hitbox, w.tb[b.id].hitbox)
        THEN on_player_bullet_collide(w1, b) ELSE w1

RECURSIVE BulletScan(_)
BulletScan(w) == IF w.bi < Len(w.bullets) THEN BulletScan(BulletTest(w)) ELSE w

\* lines 579-580
\* a variant that tests the end zone in every state of the game
GoalCheck_unguarded(w) ==
    LET w1 == [w EXCEPT !.calls.goal_test = @ + 1]
    IN  IF colliderect(w.player.hitbox, end_zone)
        THEN on_player_end_collide(w1) ELSE w1

GoalCheck(w) ==
    IF w.game_state = 2
    THEN LET w1 == [w EXCEPT !.calls.goal_test = @ + 1]
         IN  IF colliderect(w.player.hitbox, end_zone)
             THEN on_player_end_collide(w1) ELSE w1
    ELSE w

\* lines 582-584
Finish(w) ==
    IF w.game_state = 3
    THEN [w EXCEPT !.ended = @ + 1, !.game_state = None]
    ELSE w

\* the i-th step of a pass of the loop after lines 549-553, with what
\* randint, the font and uniform give should a TextBullet be created
StepAt(w, i, y, size, speed) ==
    CASE i = 1 -> QuitCheck(w)
      [] i = 2 -> TickTimer(w)
      [] i = 3 -> TickBulletTimer(w, y, size, speed)
      [] i = 4 -> WallChecks(w)
      [] i = 5 -> KeyMove(w)
      [] i = 6 -> MoveAll(w)
      [] i = 7 -> DrawAll(w)
      [] i = 8 -> BulletScan(w)
      [] i = 9 -> GoalCheck(w)
      [] OTHER -> Finish(w)

\* the steps i..10 in their order
RECURSIVE Steps(_, _, _, _, _)
Steps(w, i, y, size, speed) ==
    IF i > 10 THEN w
    ELSE The({ Steps(v, i + 1, y, size, speed) :
                 v \in { StepAt(w, i, y, size, speed) } })

\* lines 549-586: one whole pass of the loop, with the keys held and the
\* clocks' report
Frame(w, k, d, y, size, speed) ==
    The({ Steps(v, 1, y, size, speed) : v \in { StartFrame(w, k, d) } })

\* n passes of the loop on the same inputs e, as long as the loop goes on
RECURSIVE Play(_, _, _)
Play(w, e, n) ==
    IF n = 0 \/ w.game_state = None THEN w
    ELSE IF n = 1 THEN Frame(w, e.keys, e.dt, e.y, e.size, e.speed)
    ELSE The({ Play(v, e, n - n \div 2) : v \in { Play(w, e, n \div 2) } })

\* the loop run on a sequence of inputs, each held for e.n passes
RECURSIVE Replay(_, _)
Replay(w, script) ==
    IF script = <<>> \/ w.game_state = None THEN w
    ELSE The({ Replay(v, Tail(script)) :
                 v \in { Play(w, Head(script), Head(script).n) } })

----------------------------------------------------------------------------
(* states main() reaches after many passes of its loop, each given by the
   inputs that lead to it from the state main() builds *)

\* n passes with the keys k held and the clocks reporting the frame period;
\* no TextBullet is created in such a pass of these runs
Hold(k, n) ==
    [keys |-> k, dt |-> FramePeriod, n |-> n,
     y |-> 20, size |-> <<451, 15>>, speed |-> DDiv(15, 10)]

\* n passes with no key held in which the clocks report d milliseconds and a
\* TextBullet that is created gets the lane y and the given speed
Stall(d, n, y, speed) ==
    [keys |-> {}, dt |-> d, n |-> n, y |-> y, size |-> <<451, 15>>,
     speed |-> speed]

\* Countdown: the Player stands at the left edge just above the lane of two
\* TextBullets created in the last two passes, and has begun to move down
TwoBullets ==
    Replay(InitWorld,
           << Hold({"a"}, 70),
              Stall(2000, 1, 232, DDiv(15, 10)),
              Stall(2000, 1, 232, DDiv(25, 10)),
              Hold({"s"}, 1) >>)

\* Countdown: the Player stands at the left edge in the lane 232 and eighteen
\* TextBullets have hit it since its sight reached 1
LowSight ==
    Replay(InitWorld,
           << Hold({"a"}, 70), Hold({"s"}, 7), Hold({}, 30),
              Stall(2000, 1, 232, DDiv(15, 10)),
              Stall(250, 18, 232, DDiv(15, 10)) >>)

\* Navigation: the Player moves down from (50, 50) towards the Wall below
NearWall ==
    Replay(InitWorld, << Stall(20000, 1, 20, DDiv(15, 10)), Hold({"s"}, 15) >>)

\* the keys that take the Player from (50, 50) through the maze to the gap
\* beside the EndZone
ThroughTheMaze ==
    << Hold({"d"}, 171), Hold({"a"}, 10), Hold({"s"}, 35), Hold({"w"}, 10),
       Hold({"d"}, 77), Hold({"a"}, 10), Hold({"s"}, 30), Hold({"w"}, 10),
       Hold({"a"}, 41), Hold({"d"}, 10), Hold({"s"}, 30), Hold({"w"}, 10),
       Hold({"d"}, 28), Hold({"a"}, 10), Hold({"s"}, 63), Hold({"w"}, 12),
       Hold({}, 8), Hold({"a"}, 28), Hold({"d"}, 10) >>

\* Navigation: the Player moves down towards the EndZone, two passes away
NearGoal ==
    Replay(InitWorld,
           << Stall(20000, 1, 20, DDiv(15, 10)) >> \o ThroughTheMaze
               \o << Hold({"s"}, 9) >>)

----------------------------------------------------------------------------
(* main(): the loop, one action per step of a frame *)

Init == pc = "head" /\ frame = 0 /\ Load(InitWorld) /\ ut = NewUnitTimer

\* line 548 and lines 549-553
Frame_start ==
    /\ pc = "head" /\ game_state # None /\ frame < MaxFrames
    /\ \E k \in KeySets, d \in Elapsed : (\E w \in { StartFrame(World, k, d) } : Commit(w))
    /\ pc' = "quit" /\ frame' = frame + 1 /\ UNCHANGED ut

Frame_quit ==
    /\ pc = "quit"
    /\ (\E w \in { QuitCheck(World) } : Commit(w))
    /\ pc' = "tick" /\ UNCHANGED <<frame, ut>>

Frame_timer ==
    /\ pc = "tick"
    /\ (\E w \in { TickTimer(World) } : Commit(w))
    /\ pc' = "spawn" /\ UNCHANGED <<frame, ut>>

Frame_spawn ==
    /\ pc = "spawn"
    /\ \E y \in Lanes, size \in TextSizes, speed \in Speeds :
           (\E w \in { TickBulletTimer(World, y, size, speed) } : Commit(w))
    /\ pc' = "walls" /\ UNCHANGED <<frame, ut>>

Frame_walls ==
    /\ pc = "walls"
    /\ (\E w \in { WallChecks(World) } : Commit(w))
    /\ pc' = "keys" /\ UNCHANGED <<frame, ut>>

Frame_keys ==
    /\ pc = "keys"
    /\ (\E w \in { KeyMove(World) } : Commit(w))
    /\ pc' = "move" /\ UNCHANGED <<frame, ut>>

Frame_move ==
    /\ pc = "move"
    /\ (\E w \in { MoveAll(World) } : Commit(w))
    /\ pc' = "draw" /\ UNCHANGED <<frame, ut>>

Frame_draw ==
    /\ pc = "draw"
    /\ (\E w \in { DrawAll(World) } : Commit(w))
    /\ pc' = "bullets" /\ UNCHANGED <<frame, ut>>

\* one pass of the scan of line 576
Frame_bullet ==
    /\ pc = "bullets" /\ bi < Len(bullets)
    /\ (\E w \in { BulletTest(World) } : Commit(w))
    /\ UNCHANGED <<pc, frame, ut>>

\* the scan of line 576 ends: the iterator's index is past the list
Frame_bullets_done ==
    /\ pc = "bullets" /\ bi >= Len(bullets)
    /\ pc' = "goal"
    /\ UNCHANGED <<frame, game_state, keys, dt, events, player, cycles, timer,
                   bullet_timer, bullets, drawables, movables, tb, nbullets,
                   wi, bi, calls, quit_seen, quit_queued, transitions, ended,
                   ut>>

Frame_goal ==
    /\ pc = "goal"
    /\ (\E w \in { GoalCheck(World) } : Commit(w))
    /\ pc' = "finish" /\ UNCHANGED <<frame, ut>>

\* lines 582-586
Frame_finish ==
    /\ pc = "finish"
    /\ (\E w \in { Finish(World) } : Commit(w))
    /\ pc' = "head" /\ UNCHANGED <<frame, ut>>

\* line 548: game_state is None, main() returns
Loop_exit ==
    /\ pc = "head" /\ game_state = None
    /\ pc' = "done"
    /\ UNCHANGED <<frame, game_state, keys, dt, events, player, cycles, timer,
                   bullet_timer, bullets, drawables, movables, tb, nbullets,
                   wi, bi, calls, quit_seen, quit_queued, transitions, ended,
                   ut>>

\* the window system posts an event: before line 553 clears the queue, or
\* between line 553 and the event.get() of check_quit.  An event posted later
\* in the pass waits for line 553 of the next pass, as one posted at its head.
Post_event ==
    /\ pc \in {"head", "quit"} /\ game_state # None
    /\ Len(events) < MaxEvents
    /\ \E e \in EventTypes : events' = Append(events, e)
    /\ UNCHANGED <<pc, frame, game_state, keys, dt, player, cycles, timer,
                   bullet_timer, bullets, drawables, movables, tb, nbullets,
                   wi, bi, calls, quit_seen, quit_queued, transitions, ended,
                   ut>>

Next ==
    \/ Frame_start \/ Frame_quit \/ Frame_timer \/ Frame_spawn \/ Frame_walls
    \/ Frame_keys \/ Frame_move \/ Frame_draw \/ Frame_bullet
    \/ Frame_bullets_done \/ Frame_goal \/ Frame_finish \/ Loop_exit
    \/ Post_event

Spec == Init /\ [][Next]_vars

\* main() from the states its loop reaches after many passes
InitMid ==
    /\ pc = "head" /\ frame = 0 /\ ut = NewUnitTimer
    /\ \E w \in {TwoBullets, LowSight, NearWall, NearGoal} : Load(w)

SpecMid == InitMid /\ [][Next]_vars

\* 49 passes into the sight reveal, a TextBullet of the lane y = 232 next to
\* the Player
MidReveal ==
    Replay(InitWorld,
           << Stall(2000, 1, 232, DDiv(25, 10)), Hold({"a"}, 46),
              Hold({"s"}, 2) >>)

\* 140 passes of Countdown with D and S held: the Player stands on the end
\* zone and on a Wall
InTheEndZone == Replay(InitWorld, << Hold({"d", "s"}, 140) >>)

\* main() from the 50th pass of its loop on
InitReveal ==
    pc = "head" /\ frame = 0 /\ ut = NewUnitTimer /\ Load(MidReveal)

SpecReveal == InitReveal /\ [][Next]_vars

\* main() from the Countdown pass that finds the Player on the end zone
InitCountdown ==
    pc = "head" /\ frame = 0 /\ ut = NewUnitTimer /\ Load(InTheEndZone)

SpecCountdown == InitCountdown /\ [][Next]_vars

----------------------------------------------------------------------------
(* a Timer used on its own: tick() called with any elapsed times *)

\* Timer(20, ..), Timer(2, ..), Timer(0.25, ..) of main() and the interval
\* timers Timer(1, ..), Timer(0.1, ..) of the SpriteCycles
InitTimer ==
    /\ pc = "unit" /\ frame = 0 /\ Load(InitWorld)
    /\ ut \in { NewTimer(DInt(20)), NewTimer(DInt(2)), NewTimer(DDiv(25, 100)),
                NewTimer(DInt(1)), NewTimer(DDiv(1, 10)) }

\* Timer.tick, the clock reporting d milliseconds
Unit_tick ==
    /\ pc = "unit" /\ ut.ticks < MaxTicks
    /\ \E d \in Elapsed \cup {0, 250} :
         \E r \in { Timer_tick(ut.time, d) } :
            ut' = [time |-> r.time,
                   on_end |-> ut.on_end + (IF r.on_end THEN 1 ELSE 0),
                   ticks |-> ut.ticks + 1]
    /\ UNCHANGED <<pc, frame, game_state, keys, dt, events, player, cycles,
                   timer, bullet_timer, bullets, drawables, movables, tb,
                   nbullets, wi, bi, calls, quit_seen, quit_queued,
                   transitions, ended>>

SpecTimer == InitTimer /\ [][Unit_tick]_vars

----------------------------------------------------------------------------
(* a Player used on its own: key_move and the wall reaction, from (0, 0) *)

WASD == {"w", "a", "s", "d"}

\* the keys held on the way to the first state
HeldKeys == { {}, {"d"}, {"a", "w"}, {"s"}, {"a", "s", "d"} }

\* n calls of key_move with the keys k
RECURSIVE Held(_, _, _)
Held(p, k, n) ==
    IF n = 0 THEN p
    ELSE IF n = 1 THEN key_move(p, k)
    ELSE The({ Held(q, k, n - n \div 2) : q \in { Held(p, k, n \div 2) } })

InitKeys ==
    /\ pc = "unit" /\ frame = 0 /\ ut = NewUnitTimer
    /\ \E k \in HeldKeys, n \in 0..MaxHeld :
         \E w \in { [InitWorld EXCEPT !.player = Held(@, k, n)] } : Load(w)

\* player.key_move(keys) with any of W, A, S, D held
Key_call ==
    /\ pc = "unit" /\ calls.key_move < MaxCalls
    /\ \E k \in SUBSET WASD :
         \E w \in { KeyMove([World EXCEPT !.keys = k]) } : Commit(w)
    /\ UNCHANGED <<pc, frame, ut>>

\* on_player_wall_collide(player, wall)
Wall_reset ==
    /\ pc = "unit" /\ calls.wall_hit < MaxCalls
    /\ \E w \in { on_player_wall_collide(World) } : Commit(w)
    /\ UNCHANGED <<pc, frame, ut>>

NextKeys == Key_call \/ Wall_reset

SpecKeys == InitKeys /\ [][NextKeys]_vars

----------------------------------------------------------------------------
(* the same Player once the keys are let go: key_move with no key held, pass
   after pass *)

\* the last key is let go; the calls made until then are no longer counted
Release ==
    /\ pc = "unit"
    /\ pc' = "coast" /\ keys' = {} /\ calls' = NoCalls
    /\ UNCHANGED <<frame, game_state, dt, events, player, cycles, timer,
                   bullet_timer, bullets, drawables, movables, tb, nbullets,
                   wi, bi, quit_seen, quit_queued, transitions, ended, ut>>

\* player.key_move(keys) with no key held
Coast ==
    /\ pc = "coast"
    /\ \E p \in { key_move(player, {}) } : player' = p
    /\ UNCHANGED <<pc, frame, game_state, keys, dt, events, cycles, timer,
                   bullet_timer, bullets, drawables, movables, tb, nbullets,
                   wi, bi, calls, quit_seen, quit_queued, transitions, ended,
                   ut>>

NextCoast == Key_call \/ Wall_reset \/ Release \/ Coast

\* the loop calls key_move in every pass: a call that changes the Player is
\* not put off for ever
SpecCoast == InitKeys /\ [][NextCoast]_vars /\ WF_vars(Coast)

----------------------------------------------------------------------------
(* the properties *)

\* C1: the on_end of one Timer is called exactly once, by the first tick that
\* leaves its time <= 0, and by no later tick of that Timer.
C1_OnEndOnce ==
    [][ut'.on_end = ut.on_end
           + (IF DLt(DZero, ut.time) /\ DLe(ut'.time, DZero) THEN 1 ELSE 0)]_vars

\* the rosters on_state_change builds
NavigationRosters ==
    /\ movables = <<Ent("Player", 0)>>
    /\ drawables = <<Ent("Player", 0)>>
                     \o [i \in 1..Len(walls) |-> Ent("Wall", i)]
                     \o <<Ent("EndZone", 0), Ent("Stopwatch", 0)>>
    /\ bullets = <<>>
    /\ DOMAIN tb = {}
    /\ player.show_sight
    /\ timer.kind = "Stopwatch"

\* C2: once change_state has run, and in every later state, movables is
\* [player], drawables is the player, every wall, the end zone and the
\* Stopwatch, bullets is empty and show_sight is set; the step that runs
\* change_state leaves the Player at (50, 50).
C2_NavigationRosters ==
    [][/\ transitions' > 0 => NavigationRosters'
       /\ transitions' # transitions =>
             player'.x = DInt(50) /\ player'.y = DInt(50)]_vars

\* a pass of Navigation after the one of the transition, TextBullets having
\* been created before it
C2_Witness ==
    /\ pc = "goal" /\ game_state = 2
    /\ transitions = 1 /\ calls.change_state = 0 /\ nbullets > 0

\* C3: when the scan of the bullets ends in a pass of Countdown, every bullet
\* the roster held at its start has been tested, and no TextBullet whose
\* hitbox overlaps the Player's is left in a roster.
C3_NoOverlapLeft ==
    (pc = "goal" /\ game_state = 1) =>
        \A i \in DOMAIN tb : ~colliderect(player.hitbox, tb[i].hitbox)

\* C4: in Navigation, the goal check of a pass in which the Player's hitbox
\* overlaps the end zone sets game_state to 3; the same pass prints "End" and
\* sets game_state to None; "End" is printed once and no pass starts after it.
C4_GoalEndsTheGame ==
    [][/\ (pc = "goal" /\ game_state = 2 /\ colliderect(player.hitbox, end_zone))
             => (game_state' = 3 /\ frame' = frame)
       /\ (pc = "finish" /\ game_state = 3)
             => (ended' = ended + 1 /\ game_state' = None /\ frame' = frame)
       /\ ended > 0 => (ended' = ended /\ frame' = frame /\ ended = 1)]_vars

\* main() has returned through the end zone
C4_Witness ==
    /\ pc = "done" /\ ended = 1 /\ calls.goal_hit = 1
    /\ colliderect(player.hitbox, end_zone)

\* the Player's hitbox overlaps a Wall
HitsWall == \E i \in 1..Len(walls) : colliderect(player.hitbox, walls[i])

\* C5: in a pass of Navigation the Player is tested against every Wall
\* before key_move is called; if the hitbox overlaps a Wall the Player is at
\* (50, 50) with velocity (0, 0) afterwards, and if it overlaps none its
\* position and velocity are as before.
C5_WallReset ==
    [][(pc = "walls" /\ game_state = 2) =>
          /\ calls'.wall_test = Len(walls) /\ calls'.key_move = 0
          /\ IF HitsWall
             THEN /\ player'.x = DInt(50) /\ player'.y = DInt(50)
                  /\ player'.vx = DZero /\ player'.vy = DZero
             ELSE /\ player'.x = player.x /\ player'.y = player.y
                  /\ player'.vx = player.vx /\ player'.vy = player.vy]_vars

\* the Player, moving, ran into a Wall away from (50, 50) and was sent back
C5_Witness ==
    /\ pc = "keys" /\ game_state = 2 /\ calls.wall_hit > 0
    /\ calls.change_state = 0 /\ player.hitbox[2] > 50
    /\ player.x = DInt(50) /\ player.y = DInt(50)
    /\ player.vx = DZero /\ player.vy = DZero

\* C6: the reaction to a hit takes the TextBullet out of bullets, movables
\* and drawables, and lowers the sight by 0.05 if it was >= 0.1 and leaves it
\* otherwise; the sight is never negative.
C6_SightNeverNegative ==
    [][/\ calls'.bullet_hit = calls.bullet_hit + 1 =>
             /\ bullets[bi + 1] \notin
                   Members(bullets') \cup Members(movables') \cup Members(drawables')
             /\ Len(bullets') = Len(bullets) - 1
             /\ Len(movables') = Len(movables) - 1
             /\ Len(drawables') = Len(drawables) - 1
             /\ player'.sight =
                   IF DLe(DDiv(1, 10), player.sight)
                   THEN DSub(player.sight, DDiv(5, 100)) ELSE player.sight
       /\ DLe(DZero, player'.sight)]_vars

\* a hit with the sight under 0.1
C6_Witness ==
    /\ pc = "bullets" /\ calls.bullet_hit > 0
    /\ DLt(player.sight, DDiv(1, 10)) /\ DLt(DZero, player.sight)

\* C7: after a pass in which check_quit returned True no other pass starts.
C7_QuitIsFinal == [][quit_seen => frame' = frame]_vars

\* C8: in a pass in which check_quit returned True nothing is ticked,
\* spawned, moved, drawn or tested for a collision.
C8_NothingAfterQuit ==
    quit_seen =>
        /\ calls.tick = 0 /\ calls.spawn_bullet = 0 /\ calls.key_move = 0
        /\ calls.move = 0 /\ calls.draw = 0 /\ calls.wall_test = 0
        /\ calls.bullet_test = 0 /\ calls.goal_test = 0

\* C9: a QUIT event waiting in the queue as a pass begins, escape not held,
\* makes the check_quit of that pass return True.
C9_QueuedQuitSeen ==
    (pc = "tick" /\ quit_queued /\ "escape" \notin keys) => quit_seen

\* C10: whatever keys are held, key_move leaves both components of the
\* velocity within -MAX_SPEED .. MAX_SPEED.
C10_SpeedLimit ==
    /\ DLe(DNeg(DInt(MAX_SPEED)), player.vx) /\ DLe(player.vx, DInt(MAX_SPEED))
    /\ DLe(DNeg(DInt(MAX_SPEED)), player.vy) /\ DLe(player.vy, DInt(MAX_SPEED))

\* key_move has cut both components down to the limit
C10_Witness ==
    /\ calls.key_move = MaxCalls
    /\ player.vx = DNeg(DSub(DInt(MAX_SPEED), FRICTION_VECTOR.x))
    /\ player.vy = DNeg(DSub(DInt(MAX_SPEED), FRICTION_VECTOR.y))

\* C11: when a pass of the loop is over the Player is at 24 <= x <= 776 and
\* 24 <= y <= 576, and its hitbox, 48 by 48, lies within the window.
C11_InsideTheWindow ==
    pc \in {"head", "done"} =>
        /\ DLe(DInt(24), player.x) /\ DLe(player.x, DInt(776))
        /\ DLe(DInt(24), player.y) /\ DLe(player.y, DInt(576))
        /\ player.hitbox[3] = 48 /\ player.hitbox[4] = 48
        /\ 0 <= player.hitbox[1] /\ player.hitbox[1] + 48 <= GAME_WIDTH
        /\ 0 <= player.hitbox[2] /\ player.hitbox[2] + 48 <= GAME_HEIGHT

\* a pass ends with the Player held at the left edge while still moving left
C11_Witness ==
    /\ pc = "head" /\ frame > 0
    /\ player.x = DInt(24) /\ DLt(player.vx, DZero)
    /\ player.hitbox[1] = 0

\* one axis gets nearer to 0 and keeps its sign, or is 0
Toward(v, w) ==
    IF v = DZero THEN w = DZero
    ELSE w = DZero \/ (w.s = v.s /\ MagCmp(w.m, v.m) = -1)

\* C12: with no key held, key_move after key_move brings the velocity to
\* exactly (0, 0), where it stays; until then each component gets nearer to 0
\* at every call and keeps its sign.
C12_ComesToRest ==
    /\ (pc = "coast") ~> [](player.vx = DZero /\ player.vy = DZero)
    /\ [][pc = "coast" =>
            /\ Toward(player.vx, player.vx')
            /\ Toward(player.vy, player.vy')]_vars

\* the second call after D was let go at full speed
C12_Witness ==
    /\ pc = "coast" /\ player.state = "moving" /\ player.vy = DZero
    /\ player.vx = DSub(DSub(DSub(DInt(MAX_SPEED), FRICTION_VECTOR.x),
                             FRICTION_VECTOR.x), FRICTION_VECTOR.x)

\* C13: between two passes of the loop the sight is within 0 .. 1.
C13_SightWithinUnit ==
    pc = "head" => DLe(DZero, player.sight) /\ DLe(player.sight, DInt(1))

\* C14: change_state runs at most once, in the pass in which the tick of the
\* countdown Timer leaves its time <= 0 for the first time; game_state is 1
\* (or None, after a quit) until then and is never 1 afterwards.
C14_OneTransition ==
    [][/\ transitions' \in {0, 1}
       /\ (transitions' # transitions) <=>
             (/\ pc = "tick" /\ timer.kind = "Timer"
              /\ DLe(DSub(timer.time, DDiv(dt, 1000)), DZero))
       /\ transitions' = 0 =>
             /\ game_state' \in {1, None}
             /\ timer'.kind = "Timer" /\ DLt(DZero, timer'.time)
       /\ transitions' > 0 => game_state' # 1]_vars

\* the transition in the second pass, after a pass of Countdown
C14_Witness ==
    /\ pc = "spawn" /\ frame = 2 /\ calls.change_state = 1
    /\ transitions = 1 /\ game_state = 2 /\ nbullets > 0

\* C15: after a call of key_move the state is "moving" if and only if the
\* velocity it leaves has a component other than 0, and "still" otherwise.
C15_StateTellsVelocity ==
    [][calls'.key_move = calls.key_move + 1 =>
          /\ player'.state \in {"moving", "still"}
          /\ player'.state = "moving" <=>
                (player'.vx # DZero \/ player'.vy # DZero)]_vars

\* the Player's hitbox is about to be read by a collision test
HitboxRead ==
    \/ pc = "walls" /\ game_state = 2
    \/ pc = "bullets" /\ bi < Len(bullets)
    \/ pc = "goal" /\ game_state = 2

\* C16: wherever a collision test reads the Player's hitbox, the hitbox is
\* the 48 by 48 rectangle centred on the Player's x, y.
C16_HitboxFollowsPosition ==
    HitboxRead => player.hitbox = Hitbox(player.x, player.y)

\* C17: in a pass of the loop Clock.tick(FPS) is called exactly once, however
\* many Timers and Stopwatches are ticked in it.
C17_OneClockTickAFrame ==
    (pc = "head" /\ frame > 0) => calls.clock = 1

\* C18: in a pass where game_state is 1 at the wall checks and at the goal
\* check, no Wall is tested, the Player is not sent back and game_state is
\* not set to 3, wherever the Player stands; game_state becomes 3 only from
\* 2, and "End" is printed only after change_state has run.
C18_NoReactionInCountdown ==
    [][/\ (pc = "walls" /\ game_state = 1) =>
             (calls'.wall_test = 0 /\ calls'.wall_hit = 0 /\ player' = player)
       /\ (pc = "goal" /\ game_state = 1) =>
             (calls'.goal_hit = 0 /\ game_state' = 1)
       /\ game_state' = 3 => game_state \in {2, 3}
       /\ ended' > 0 => transitions' > 0]_vars

\* a pass of Countdown ends with the Player on the end zone and on a Wall
C18_Witness ==
    /\ pc = "finish" /\ frame > 0 /\ game_state = 1
    /\ colliderect(player.hitbox, end_zone) /\ HitsWall
    /\ calls.wall_hit = 0 /\ calls.goal_hit = 0

\* C19: Player.draw clears is_playing_animation when the sight has reached
\* 1, setting the sight to 1; once cleared the flag stays cleared and the
\* sight never grows again.
C19_RevealPlaysOnce ==
    [][/\ (player.is_playing_animation /\ ~player'.is_playing_animation) =>
             (/\ pc = "draw" /\ DLe(DInt(1), player.sight)
              /\ player'.sight = DInt(1))
       /\ ~player.is_playing_animation =>
             (/\ ~player'.is_playing_animation
              /\ DLe(player'.sight, player.sight))]_vars

\* the flag was cleared in this run and a TextBullet has hit since
C19_Witness ==
    /\ ~player.is_playing_animation /\ pc = "head"
    /\ player.sight = DSub(DInt(1), DDiv(5, 100))

\* the spawn Timer is ticked and its time runs out
SpawnDue ==
    /\ pc = "spawn" /\ game_state = 1
    /\ DLe(DSub(bullet_timer.time, DDiv(dt, 1000)), DZero)

\* C20: a TextBullet is created exactly when the spawn Timer, ticked in a
\* pass of Countdown, runs out: one TextBullet, added to the three rosters,
\* and a new Timer of 0.25 s; a tick that does not run it out takes the
\* elapsed time off it; outside Countdown and from the pass of the transition
\* on the spawn Timer is not ticked, and no TextBullet is in a roster.
C20_SpawnOnlyInCountdown ==
    [][/\ (nbullets' # nbullets) <=> SpawnDue
       /\ SpawnDue =>
             /\ nbullets' = nbullets + 1 /\ calls'.spawn_bullet = 1
             /\ Len(bullets') = Len(bullets) + 1
             /\ Len(movables') = Len(movables) + 1
             /\ Len(drawables') = Len(drawables) + 1
             /\ bullet_timer'.time = DDiv(25, 100)
       /\ (pc = "spawn" /\ game_state = 1 /\ ~SpawnDue) =>
             bullet_timer'.time = DSub(bullet_timer.time, DDiv(dt, 1000))
       /\ (game_state # 1 \/ transitions' > 0) => bullet_timer' = bullet_timer
       /\ transitions' > 0 =>
             (/\ bullets' = <<>> /\ DOMAIN tb' = {}
              /\ \A i \in 1..Len(movables') : movables'[i].kind # "TextBullet"
              /\ \A i \in 1..Len(drawables') : drawables'[i].kind # "TextBullet")]_vars

\* two TextBullets were created, the second by the Timer of 0.25 s, and the
\* pass of the transition has left that Timer's successor alone
C20_Witness ==
    /\ pc = "walls" /\ frame = 3 /\ calls.change_state = 1
    /\ nbullets = 2 /\ bullets = <<>>
    /\ bullet_timer.time = DDiv(25, 100)

\* the number of places of the roster that hold the entity
Occurrences(roster, e) == Cardinality({ i \in 1..Len(roster) : roster[i] = e })

\* C21: between two passes of the loop the Player is once in the movables and
\* once in the drawables, and every TextBullet ever created is either once in
\* each of bullets, movables and drawables or in none of them.
C21_RostersAgree ==
    pc = "head" =>
        /\ Occurrences(movables, Ent("Player", 0)) = 1
        /\ Occurrences(drawables, Ent("Player", 0)) = 1
        /\ \A id \in 1..nbullets :
              \E n \in {0, 1} :
                 /\ Occurrences(bullets, Ent("TextBullet", id)) = n
                 /\ Occurrences(movables, Ent("TextBullet", id)) = n
                 /\ Occurrences(drawables, Ent("TextBullet", id)) = n
        /\ \A i \in 1..Len(bullets) : bullets[i].kind = "TextBullet"
        /\ \A i \in 1..Len(movables) :
              movables[i].kind = "TextBullet" => movables[i].id \in 1..nbullets
        /\ \A i \in 1..Len(drawables) :
              drawables[i].kind = "TextBullet" => drawables[i].id \in 1..nbullets

\* a pass has removed the first TextBullet and created a third one, and the
\* second is still in the rosters
C21_Witness ==
    /\ pc = "head" /\ frame > 0 /\ game_state = 1
    /\ nbullets = 3
    /\ bullets = << Ent("TextBullet", 2), Ent("TextBullet", 3) >>

====
